---- MODULE Spec2Model ----
(***************************************************************************)
(* consul-backup: one run of main() of src/main.go, from flag parsing to   *)
(* process exit.  src/main.go holds two revisions of the program: the one  *)
(* that verifies the snapshot by restoring it into a dummy consul agent    *)
(* (lines 30-249) and the one that uploads without verification (lines     *)
(* 275-397).  `revision` selects which of the two runs.                    *)
(*                                                                         *)
(* The collaborators (consul client, consul agent, aws sdk, clock,         *)
(* environment) are the environment of the model: every call to one of     *)
(* them is recorded in a history variable (liveOps, dummyOps, puts,        *)
(* sleeps) and its result is drawn nondeterministically.                   *)
(***************************************************************************)
EXTENDS Integers, Sequences, FiniteSets, TLC

VARIABLES
    revision,       \* "verify" (main.go:30-249) or "upload" (main.go:275-397)
    liveStore,      \* contents of the live consul KV store, as KV().List returns them
    consulAddr,     \* *consulAddr
    targetURI,      \* *targetURI
    target,         \* *target
    pc,             \* position in main / sendToS3
    exitCode,       \* process exit status, Running while the process runs
    err,            \* the err variable of main / sendToS3
    snapshot,       \* the bytes of ioutil.ReadAll(data)
    agent,          \* lifecycle of the in-process dummy consul agent
    restoredStore,  \* contents of the dummy agent's KV store
    snapshotKvs,    \* result of dummyConsulClient.KV().List
    liveKvs,        \* result of consulClient.KV().List
    verdict,        \* outcome of the comparison: "None", "Passed", "Failed"
    missingLogged,  \* keys logged by "key %s was not found in the snapshot"
    sizeLogged,     \* "different snapshot kv size detected" was logged
    snapshotKey,    \* artifact name
    s3Path,         \* object key
    retries,        \* retries of sendToS3
    liveOps,        \* calls issued through consulClient
    dummyOps,       \* calls issued through dummyConsulClient
    puts,           \* svc.PutObject calls, with their result
    sleeps          \* time.Sleep calls, in seconds

vars == <<revision, liveStore, consulAddr, targetURI, target, pc, exitCode, err,
          snapshot, agent, restoredStore, snapshotKvs, liveKvs, verdict,
          missingLogged, sizeLogged, snapshotKey, s3Path, retries, liveOps, dummyOps, puts,
          sleeps>>

---------------------------------------------------------------------------
(* Bounds of the model *)

\* number of distinct keys the live and the restored store may hold
MaxKeys == 2

KeyNames == <<"a", "b", "c", "d">>

\* value byte lengths: differences of 0, 1, 1000 and 1001 bytes all occur
ValueLens == {0, 1000, 1001}

\* snapshot byte sequences the live store may return
SnapshotBlobs == {<<115>>, <<115, 110>>}

\* values of time.Now().Unix()
Timestamps == {1567000000, 1567000001}

---------------------------------------------------------------------------
(* Program constants *)

\* main.go:157, the +-1000 bytes of the size check
SizeTolerance == 1000

\* main.go:201, retries < 3
MaxRetries == 3

\* main.go:126, time.Second * 2
GraceSeconds == 2

\* main.go:204, time.Second * 5
RetrySeconds == 5

Running == -1

Nil == <<"nil", 0>>


---------------------------------------------------------------------------
(* Collaborators' data *)

RECURSIVE ListFrom(_, _, _)
\* the pairs of a store holding the keys of index in S with value lengths f,
\* from index i on, in key order, as KV().List returns them
ListFrom(S, f, i) ==
    IF i > MaxKeys THEN <<>>
    ELSE IF i \notin S THEN ListFrom(S, f, i + 1)
    ELSE <<[Key |-> KeyNames[i], ValueLen |-> f[i]]>> \o ListFrom(S, f, i + 1)

\* every content a consul KV store may have: a sequence of KVPair (its Key
\* and len(Value)), sorted by key, keys distinct
Stores ==
    {ListFrom(S, f, 1) : S \in SUBSET (1..MaxKeys), f \in [1..MaxKeys -> ValueLens]}

\* flag and environment values for the consul address
AddrInputs == {"", "not-a-url", "http://:8500", "http://consul:8500"}

\* flag and environment values for the target
TargetInputs ==
    {"", "not-a-url", "/consul-snapshots", "s3:///consul-snapshots",
     "s3://my-bucket", "s3://my-bucket/consul-snapshots?region=us-east-1",
     "gcs://my-bucket/consul-snapshots"}

URL(e, scheme, host, hostname, path, region) ==
    [err |-> e, Scheme |-> scheme, Host |-> host, Hostname |-> hostname,
     Path |-> path, Region |-> region]

\* net/url.ParseRequestURI on the inputs above: the empty string and a
\* string that is neither an absolute URI nor an absolute path are errors;
\* an absolute path parses with empty Scheme and Host; Host is the
\* authority (with port), Hostname() the authority without port; Region is
\* Query().Get("region")
ParseRequestURI(raw) ==
    CASE raw = "" -> URL(TRUE, "", "", "", "", "")
      [] raw = "not-a-url" -> URL(TRUE, "", "", "", "", "")
      [] raw = "/consul-snapshots" -> URL(FALSE, "", "", "", "/consul-snapshots", "")
      [] raw = "http://:8500" -> URL(FALSE, "http", ":8500", "", "", "")
      [] raw = "http://consul:8500" -> URL(FALSE, "http", "consul:8500", "consul", "", "")
      [] raw = "s3:///consul-snapshots" -> URL(FALSE, "s3", "", "", "/consul-snapshots", "")
      [] raw = "s3://my-bucket" -> URL(FALSE, "s3", "my-bucket", "my-bucket", "", "")
      [] raw = "s3://my-bucket/consul-snapshots?region=us-east-1" ->
            URL(FALSE, "s3", "my-bucket", "my-bucket", "/consul-snapshots", "us-east-1")
      [] raw = "gcs://my-bucket/consul-snapshots" ->
            URL(FALSE, "gcs", "my-bucket", "my-bucket", "/consul-snapshots", "")

NoTarget == [Type |-> "", Base |-> "", Path |-> "", Options |-> [region |-> ""]]

\* main.go:62-67
NewTarget(u) ==
    [Type |-> u.Scheme, Base |-> u.Host, Path |-> u.Path,
     Options |-> [region |-> u.Region]]

\* main.go:47-48: the consul address is rejected
ConsulAddrInvalid(raw) ==
    LET u == ParseRequestURI(raw) IN u.err \/ u.Scheme = "" \/ u.Hostname = ""

\* the target check without its Scheme and Host conditions
TargetURIInvalid_ErrOnly(raw) ==
    LET u == ParseRequestURI(raw) IN u.err

\* main.go:53-54: the target is rejected
TargetURIInvalid(raw) ==
    LET u == ParseRequestURI(raw) IN u.err \/ u.Scheme = "" \/ u.Host = ""

---------------------------------------------------------------------------
(* Pure helpers of main *)

\* contains returning true from the first iteration
contains_NonEmpty(s, e) == s # <<>>

RECURSIVE contains(_, _)
\* main.go:242-249
contains(s, e) ==
    IF s = <<>> THEN FALSE
    ELSE IF Head(s) = e THEN TRUE
    ELSE contains(Tail(s), e)

RECURSIVE KeysOf(_)
\* main.go:144-147: snapshotKeys
KeysOf(kvs) ==
    IF kvs = <<>> THEN <<>> ELSE <<Head(kvs).Key>> \o KeysOf(Tail(kvs))

RECURSIVE TotalBytes(_)
\* main.go:145, 150: the sum of int64(len(kv.Value))
TotalBytes(kvs) ==
    IF kvs = <<>> THEN 0 ELSE Head(kvs).ValueLen + TotalBytes(Tail(kvs))

RECURSIVE FirstMissing_Last(_, _)
\* the loop keeping the last missing key instead of stopping at the first
FirstMissing_Last(kvs, snapshotKeys) ==
    IF kvs = <<>> THEN <<>>
    ELSE LET rest == FirstMissing_Last(Tail(kvs), snapshotKeys)
         IN  IF rest # <<>> THEN rest
             ELSE IF ~contains(snapshotKeys, Head(kvs).Key) THEN <<Head(kvs).Key>>
             ELSE <<>>

RECURSIVE FirstMissing(_, _)
\* main.go:149-155: the first live key, in listing order, that is not in
\* snapshotKeys, as a one-element sequence; <<>> when the loop completes
FirstMissing(kvs, snapshotKeys) ==
    IF kvs = <<>> THEN <<>>
    ELSE IF ~contains(snapshotKeys, Head(kvs).Key) THEN <<Head(kvs).Key>>
    ELSE FirstMissing(Tail(kvs), snapshotKeys)

\* the size check with the bounds included
SizeMismatch_Inclusive(liveTotalBytes, snapshotTotalBytes) ==
    \/ liveTotalBytes <= snapshotTotalBytes - SizeTolerance
    \/ liveTotalBytes >= snapshotTotalBytes + SizeTolerance

\* the size check without tolerance
SizeMismatch_NoTolerance(liveTotalBytes, snapshotTotalBytes) ==
    liveTotalBytes # snapshotTotalBytes

\* main.go:157
SizeMismatch(liveTotalBytes, snapshotTotalBytes) ==
    \/ liveTotalBytes < snapshotTotalBytes - SizeTolerance
    \/ liveTotalBytes > snapshotTotalBytes + SizeTolerance

\* the switch without its default case
Supported_NoDefault(type) == TRUE

\* main.go:166-167: the case of the switch on target.Type
Supported(type) == type = "s3"

\* the loop condition with retries <= 3
RetryCond_OffByOne(e, r) == e # Nil /\ r <= MaxRetries

\* the loop condition without err != nil
RetryCond_IgnoreErr(e, r) == r < MaxRetries

\* the loop condition without retries < 3
RetryCond_NoBound(e, r) == e # Nil

\* main.go:201: the condition of the retry loop
RetryCond(e, r) == e # Nil /\ r < MaxRetries

\* main.go:191
S3Path(t, key) == t.Path \o "/" \o key

\* main.go:164
SnapshotKey(now) == ToString(now) \o ".snap"


---------------------------------------------------------------------------
(* The state after process start: flags parsed (main.go:31-35) *)

Init ==
    /\ revision \in {"verify", "upload"}
    /\ liveStore \in Stores
    /\ consulAddr \in AddrInputs
    /\ targetURI \in TargetInputs
    /\ target = NoTarget
    /\ pc = "start"
    /\ exitCode = Running
    /\ err = Nil
    /\ snapshot = <<>>
    /\ agent = "none"
    /\ restoredStore = <<>>
    /\ snapshotKvs = <<>>
    /\ liveKvs = <<>>
    /\ verdict = "None"
    /\ missingLogged = <<>>
    /\ sizeLogged = FALSE
    /\ snapshotKey = ""
    /\ s3Path = ""
    /\ retries = 0
    /\ liveOps = <<>>
    /\ dummyOps = <<>>
    /\ puts = <<>>
    /\ sleeps = <<>>

\* a dummy agent that outlives the process
ProcessEnd_Detached(a) == a

\* the dummy agent runs inside the process (main.go:17, 221-240, started at
\* 106): it ends with the process
ProcessEnd(a) == IF a = "running" THEN "stopped" ELSE a

\* os.Exit(code), and the return of main (code 0)
Exit(code) ==
    /\ pc' = "exited"
    /\ exitCode' = code
    /\ agent' = ProcessEnd(agent)

Goto(next) ==
    /\ pc' = next
    /\ UNCHANGED <<exitCode, agent>>

\* main.go:37-67 (and 282-312): environment fallbacks, validation of both
\* URIs, construction of target
ParseArgs ==
    /\ pc = "start"
    /\ \E envConsulAddr \in AddrInputs, envTargetURI \in TargetInputs :
        LET addr == IF Len(consulAddr) = 0 THEN envConsulAddr ELSE consulAddr
            uri == IF Len(targetURI) = 0 THEN envTargetURI ELSE targetURI
        IN  /\ consulAddr' = addr
            /\ targetURI' = uri
            /\ IF ConsulAddrInvalid(addr) THEN
                    Exit(1) /\ UNCHANGED target
               ELSE IF TargetURIInvalid(uri) THEN
                    Exit(1) /\ UNCHANGED target
               ELSE
                    /\ target' = NewTarget(ParseRequestURI(uri))
                    /\ Goto("newClient")
    /\ UNCHANGED <<revision, liveStore, err, snapshot, restoredStore, snapshotKvs,
                   liveKvs, verdict, missingLogged, sizeLogged, snapshotKey, s3Path, retries,
                   liveOps, dummyOps, puts, sleeps>>

\* main.go:69-79 (314-324): consul.NewClient
NewClient ==
    /\ pc = "newClient"
    /\ \E ok \in BOOLEAN :
        IF ok THEN Goto("save") /\ err' = Nil
        ELSE Exit(1) /\ err' = <<"NewClient", 0>>
    /\ UNCHANGED <<revision, liveStore, consulAddr, targetURI, target, snapshot,
                   restoredStore, snapshotKvs, liveKvs, verdict, missingLogged, sizeLogged,
                   snapshotKey, s3Path, retries, liveOps, dummyOps, puts, sleeps>>

\* main.go:81-86 with the os.Exit(1) of line 85 left out
Save_IgnoreErr ==
    /\ pc = "save"
    /\ \E ok \in BOOLEAN :
        /\ liveOps' = Append(liveOps, [op |-> "Snapshot.Save", ok |-> ok])
        /\ err' = IF ok THEN Nil ELSE <<"Save", 0>>
    /\ Goto("readAll")
    /\ UNCHANGED <<revision, liveStore, consulAddr, targetURI, target, snapshot,
                   restoredStore, snapshotKvs, liveKvs, verdict, missingLogged,
                   sizeLogged, snapshotKey, s3Path, retries, dummyOps, puts,
                   sleeps>>

\* main.go:81-86 (326-331): consulClient.Snapshot().Save
Save ==
    /\ pc = "save"
    /\ \E ok \in BOOLEAN :
        /\ liveOps' = Append(liveOps, [op |-> "Snapshot.Save", ok |-> ok])
        /\ IF ok THEN Goto("readAll") /\ err' = Nil
           ELSE Exit(1) /\ err' = <<"Save", 0>>
    /\ UNCHANGED <<revision, liveStore, consulAddr, targetURI, target, snapshot,
                   restoredStore, snapshotKvs, liveKvs, verdict, missingLogged, sizeLogged,
                   snapshotKey, s3Path, retries, dummyOps, puts, sleeps>>

\* main.go:88-95 (333-340): ioutil.ReadAll(data); the verifying revision goes
\* on to the dummy agent, the other one to the artifact name
ReadAll ==
    /\ pc = "readAll"
    /\ \E blob \in SnapshotBlobs, ok \in BOOLEAN :
        /\ snapshot' = blob
        /\ IF ok THEN
                /\ Goto(IF revision = "verify" THEN "getAgent" ELSE "name")
                /\ err' = Nil
           ELSE Exit(1) /\ err' = <<"ReadAll", 0>>
    /\ UNCHANGED <<revision, liveStore, consulAddr, targetURI, target,
                   restoredStore, snapshotKvs, liveKvs, verdict, missingLogged, sizeLogged,
                   snapshotKey, s3Path, retries, liveOps, dummyOps, puts, sleeps>>

\* main.go:97-102, 221-240: getConsulAgent
GetConsulAgent ==
    /\ pc = "getAgent"
    /\ \E ok \in BOOLEAN :
        IF ok THEN
            /\ pc' = "agentStart"
            /\ agent' = "created"
            /\ err' = Nil
            /\ UNCHANGED exitCode
        ELSE Exit(1) /\ err' = <<"getConsulAgent", 0>>
    /\ UNCHANGED <<revision, liveStore, consulAddr, targetURI, target, snapshot,
                   restoredStore, snapshotKvs, liveKvs, verdict, missingLogged, sizeLogged,
                   snapshotKey, s3Path, retries, liveOps, dummyOps, puts, sleeps>>

\* main.go:106-111: consulAgent.Start
AgentStart ==
    /\ pc = "agentStart"
    /\ \E ok \in BOOLEAN :
        IF ok THEN
            /\ pc' = "dummyClient"
            /\ agent' = "running"
            /\ err' = Nil
            /\ UNCHANGED exitCode
        ELSE Exit(1) /\ err' = <<"Start", 0>>
    /\ UNCHANGED <<revision, liveStore, consulAddr, targetURI, target, snapshot,
                   restoredStore, snapshotKvs, liveKvs, verdict, missingLogged, sizeLogged,
                   snapshotKey, s3Path, retries, liveOps, dummyOps, puts, sleeps>>

\* main.go:113-123: consul.NewClient for the dummy agent
NewDummyClient ==
    /\ pc = "dummyClient"
    /\ \E ok \in BOOLEAN :
        IF ok THEN Goto("wait") /\ err' = Nil
        ELSE Exit(1) /\ err' = <<"NewClient", 0>>
    /\ UNCHANGED <<revision, liveStore, consulAddr, targetURI, target, snapshot,
                   restoredStore, snapshotKvs, liveKvs, verdict, missingLogged, sizeLogged,
                   snapshotKey, s3Path, retries, liveOps, dummyOps, puts, sleeps>>

\* main.go:125-126 without the sleep
Wait_Skipped ==
    /\ pc = "wait"
    /\ Goto("restore")
    /\ UNCHANGED <<revision, liveStore, consulAddr, targetURI, target, err,
                   snapshot, restoredStore, snapshotKvs, liveKvs, verdict,
                   missingLogged, sizeLogged, snapshotKey, s3Path, retries,
                   liveOps, dummyOps, puts, sleeps>>

\* main.go:125-126: time.Sleep(time.Second * 2)
Wait ==
    /\ pc = "wait"
    /\ sleeps' = Append(sleeps, GraceSeconds)
    /\ Goto("restore")
    /\ UNCHANGED <<revision, liveStore, consulAddr, targetURI, target, err,
                   snapshot, restoredStore, snapshotKvs, liveKvs, verdict,
                   missingLogged, sizeLogged, snapshotKey, s3Path, retries, liveOps, dummyOps,
                   puts>>

\* the restore issued through consulClient instead of dummyConsulClient: it
\* replaces the contents of the live store
Restore_OnLive ==
    /\ pc = "restore"
    /\ \E ok \in BOOLEAN, content \in Stores :
        /\ liveOps' = Append(liveOps, [op |-> "Snapshot.Restore", ok |-> ok])
        /\ IF ok THEN
                /\ liveStore' = content
                /\ Goto("listSnapshot")
                /\ err' = Nil
           ELSE
                /\ UNCHANGED liveStore
                /\ Exit(1)
                /\ err' = <<"Restore", 0>>
    /\ UNCHANGED <<restoredStore, dummyOps>>
    /\ UNCHANGED <<revision, consulAddr, targetURI, target, snapshot,
                   snapshotKvs, liveKvs, verdict, missingLogged, sizeLogged,
                   snapshotKey, s3Path, retries, puts, sleeps>>

\* a failed restore that waits and is submitted again
Restore_Retry ==
    /\ pc = "restore"
    /\ \E ok \in BOOLEAN, content \in Stores :
        /\ dummyOps' = Append(dummyOps,
                [op |-> "Snapshot.Restore", body |-> snapshot, ok |-> ok])
        /\ IF ok THEN
                /\ restoredStore' = content
                /\ Goto("listSnapshot")
                /\ err' = Nil
           ELSE
                /\ UNCHANGED restoredStore
                /\ Goto("wait")
                /\ err' = <<"Restore", 0>>
    /\ UNCHANGED <<liveStore, liveOps>>
    /\ UNCHANGED <<revision, consulAddr, targetURI, target, snapshot,
                   snapshotKvs, liveKvs, verdict, missingLogged, sizeLogged,
                   snapshotKey, s3Path, retries, puts, sleeps>>

\* main.go:128-135 with the os.Exit(1) of line 134 left out
Restore_IgnoreErr ==
    /\ pc = "restore"
    /\ \E ok \in BOOLEAN, content \in Stores :
        /\ dummyOps' = Append(dummyOps,
                [op |-> "Snapshot.Restore", body |-> snapshot, ok |-> ok])
        /\ restoredStore' = IF ok THEN content ELSE restoredStore
        /\ err' = IF ok THEN Nil ELSE <<"Restore", 0>>
        /\ Goto("listSnapshot")
    /\ UNCHANGED <<liveStore, liveOps>>
    /\ UNCHANGED <<revision, consulAddr, targetURI, target, snapshot,
                   snapshotKvs, liveKvs, verdict, missingLogged, sizeLogged,
                   snapshotKey, s3Path, retries, puts, sleeps>>

\* main.go:128-135: dummyConsulClient.Snapshot().Restore(nil, reader); what
\* the dummy agent holds afterwards is the snapshot's content, whatever it is
Restore ==
    /\ pc = "restore"
    /\ \E ok \in BOOLEAN, content \in Stores :
        /\ dummyOps' = Append(dummyOps,
                [op |-> "Snapshot.Restore", body |-> snapshot, ok |-> ok])
        /\ IF ok THEN
                /\ restoredStore' = content
                /\ Goto("listSnapshot")
                /\ err' = Nil
           ELSE
                /\ UNCHANGED restoredStore
                /\ Exit(1)
                /\ err' = <<"Restore", 0>>
    /\ UNCHANGED <<revision, liveStore, consulAddr, targetURI, target, snapshot,
                   snapshotKvs, liveKvs, verdict, missingLogged, sizeLogged, snapshotKey,
                   s3Path, retries, liveOps, puts, sleeps>>


\* main.go:137: dummyConsulClient.KV().List("/", nil); on an error the pairs
\* are nil, and err is not looked at
ListSnapshot ==
    /\ pc = "listSnapshot"
    /\ \E ok \in BOOLEAN :
        /\ dummyOps' = Append(dummyOps, [op |-> "KV.List", body |-> <<>>, ok |-> ok])
        /\ snapshotKvs' = IF ok THEN restoredStore ELSE <<>>
        /\ err' = IF ok THEN Nil ELSE <<"List", 0>>
    /\ Goto("listLive")
    /\ UNCHANGED <<revision, liveStore, consulAddr, targetURI, target, snapshot,
                   restoredStore, liveKvs, verdict, missingLogged, sizeLogged, snapshotKey,
                   s3Path, retries, liveOps, puts, sleeps>>

\* main.go:138: consulClient.KV().List("/", nil); err is overwritten and not
\* looked at
ListLive ==
    /\ pc = "listLive"
    /\ \E ok \in BOOLEAN :
        /\ liveOps' = Append(liveOps, [op |-> "KV.List", ok |-> ok])
        /\ liveKvs' = IF ok THEN liveStore ELSE <<>>
        /\ err' = IF ok THEN Nil ELSE <<"List", 0>>
    /\ Goto("compare")
    /\ UNCHANGED <<revision, liveStore, consulAddr, targetURI, target, snapshot,
                   restoredStore, snapshotKvs, verdict, missingLogged, sizeLogged, snapshotKey,
                   s3Path, retries, dummyOps, puts, sleeps>>

\* main.go:140-162 with the os.Exit calls of lines 153 and 159 left out: the
\* findings are logged and the run goes on
Compare_LogOnly ==
    /\ pc = "compare"
    /\ LET missing == FirstMissing(liveKvs, KeysOf(snapshotKvs))
       IN  /\ missingLogged' = missing
           /\ sizeLogged' = SizeMismatch(TotalBytes(liveKvs), TotalBytes(snapshotKvs))
           /\ verdict' = IF \/ missing # <<>>
                            \/ SizeMismatch(TotalBytes(liveKvs), TotalBytes(snapshotKvs))
                         THEN "Failed" ELSE "Passed"
           /\ Goto("name")
    /\ UNCHANGED <<revision, liveStore, consulAddr, targetURI, target, err,
                   snapshot, restoredStore, snapshotKvs, liveKvs, snapshotKey,
                   s3Path, retries, liveOps, dummyOps, puts, sleeps>>

\* main.go:140-162: the two loops and the size check
Compare ==
    /\ pc = "compare"
    /\ LET snapshotKeys == KeysOf(snapshotKvs)
           snapshotTotalBytes == TotalBytes(snapshotKvs)
           liveTotalBytes == TotalBytes(liveKvs)
           missing == FirstMissing(liveKvs, snapshotKeys)
       IN  IF missing # <<>> THEN
                /\ missingLogged' = missing
                /\ UNCHANGED sizeLogged
                /\ verdict' = "Failed"
                /\ Exit(1)
           ELSE IF SizeMismatch(liveTotalBytes, snapshotTotalBytes) THEN
                /\ UNCHANGED missingLogged
                /\ sizeLogged' = TRUE
                /\ verdict' = "Failed"
                /\ Exit(1)
           ELSE
                /\ UNCHANGED <<missingLogged, sizeLogged>>
                /\ verdict' = "Passed"
                /\ Goto("name")
    /\ UNCHANGED <<revision, liveStore, consulAddr, targetURI, target, err,
                   snapshot, restoredStore, snapshotKvs, liveKvs, snapshotKey,
                   s3Path, retries, liveOps, dummyOps, puts, sleeps>>

\* main.go:164 (342): the artifact name
NameArtifact ==
    /\ pc = "name"
    /\ \E now \in Timestamps : snapshotKey' = SnapshotKey(now)
    /\ Goto("dispatch")
    /\ UNCHANGED <<revision, liveStore, consulAddr, targetURI, target, err,
                   snapshot, restoredStore, snapshotKvs, liveKvs, verdict,
                   missingLogged, sizeLogged, s3Path, retries, liveOps, dummyOps, puts, sleeps>>

\* main.go:166-172 (344-350): the switch on target.Type
Dispatch ==
    /\ pc = "dispatch"
    /\ IF Supported(target.Type) THEN
            Goto("newSession") /\ UNCHANGED err
       ELSE
            Goto("checkErr") /\ err' = <<"unsupported", 0>>
    /\ UNCHANGED <<revision, liveStore, consulAddr, targetURI, target, snapshot,
                   restoredStore, snapshotKvs, liveKvs, verdict, missingLogged, sizeLogged,
                   snapshotKey, s3Path, retries, liveOps, dummyOps, puts, sleeps>>

\* main.go:181-193 (359-371): session.NewSession, s3.New, s3Path, retries := 0
NewSession ==
    /\ pc = "newSession"
    /\ \E ok \in BOOLEAN :
        IF ok THEN
            /\ s3Path' = S3Path(target, snapshotKey)
            /\ retries' = 0
            /\ err' = Nil
            /\ Goto("putObject")
        ELSE
            /\ err' = <<"NewSession", 0>>
            /\ Goto("checkErr")
            /\ UNCHANGED <<s3Path, retries>>
    /\ UNCHANGED <<revision, liveStore, consulAddr, targetURI, target, snapshot,
                   restoredStore, snapshotKvs, liveKvs, verdict, missingLogged, sizeLogged,
                   snapshotKey, liveOps, dummyOps, puts, sleeps>>

\* one reader of the snapshot shared by all attempts: the first attempt
\* drains it and the retries send what is left of it
PutObjectCall_SharedReader(e) ==
    /\ puts' = Append(puts, [Bucket |-> target.Base, Key |-> s3Path,
                             Body |-> IF puts = <<>> THEN snapshot ELSE <<>>,
                             err |-> e])
    /\ err' = e

\* svc.PutObject(&s3.PutObjectInput{Bucket, Body, Key}): the call is recorded
\* with the error it returns, Nil or the error of this attempt
PutObjectCall(e) ==
    /\ puts' = Append(puts, [Bucket |-> target.Base, Key |-> s3Path,
                             Body |-> snapshot, err |-> e])
    /\ err' = e

PutErrors == {Nil, <<"PutObject", Len(puts) + 1>>}

\* main.go:195-199 (373-377): the first attempt
PutObject ==
    /\ pc = "putObject"
    /\ \E e \in PutErrors : PutObjectCall(e)
    /\ Goto("loop")
    /\ UNCHANGED <<revision, liveStore, consulAddr, targetURI, target, snapshot,
                   restoredStore, snapshotKvs, liveKvs, verdict, missingLogged, sizeLogged,
                   snapshotKey, s3Path, retries, liveOps, dummyOps, sleeps>>

\* main.go:201-210 (379-388): one iteration of the retry loop
Retry ==
    /\ pc = "loop"
    /\ RetryCond(err, retries)
    /\ retries' = retries + 1
    /\ sleeps' = Append(sleeps, RetrySeconds)
    /\ \E e \in PutErrors : PutObjectCall(e)
    /\ Goto("loop")
    /\ UNCHANGED <<revision, liveStore, consulAddr, targetURI, target, snapshot,
                   restoredStore, snapshotKvs, liveKvs, verdict, missingLogged, sizeLogged,
                   snapshotKey, s3Path, liveOps, dummyOps>>

\* main.go:201, 212-218 (379, 390-396): the loop ends and sendToS3 returns err
Return ==
    /\ pc = "loop"
    /\ ~RetryCond(err, retries)
    /\ Goto("checkErr")
    /\ UNCHANGED <<revision, liveStore, consulAddr, targetURI, target, err,
                   snapshot, restoredStore, snapshotKvs, liveKvs, verdict,
                   missingLogged, sizeLogged, snapshotKey, s3Path, retries, liveOps, dummyOps,
                   puts, sleeps>>

\* main.go:174-178 with the os.Exit(1) left out: the error is logged and
\* main returns
CheckErr_LogOnly ==
    /\ pc = "checkErr"
    /\ Exit(0)
    /\ UNCHANGED <<revision, liveStore, consulAddr, targetURI, target, err,
                   snapshot, restoredStore, snapshotKvs, liveKvs, verdict,
                   missingLogged, sizeLogged, snapshotKey, s3Path, retries, liveOps, dummyOps,
                   puts, sleeps>>

\* main.go:174-178 (352-356): os.Exit(1) on an error, else main returns
CheckErr ==
    /\ pc = "checkErr"
    /\ IF err # Nil THEN Exit(1) ELSE Exit(0)
    /\ UNCHANGED <<revision, liveStore, consulAddr, targetURI, target, err,
                   snapshot, restoredStore, snapshotKvs, liveKvs, verdict,
                   missingLogged, sizeLogged, snapshotKey, s3Path, retries, liveOps, dummyOps,
                   puts, sleeps>>

Next ==
    \/ ParseArgs
    \/ NewClient
    \/ Save
    \/ ReadAll
    \/ GetConsulAgent
    \/ AgentStart
    \/ NewDummyClient
    \/ Wait
    \/ Restore
    \/ ListSnapshot
    \/ ListLive
    \/ Compare
    \/ NameArtifact
    \/ Dispatch
    \/ NewSession
    \/ PutObject
    \/ Retry
    \/ Return
    \/ CheckErr

Spec == Init /\ [][Next]_vars


---------------------------------------------------------------------------
(* Vocabulary of the properties, stated on what the run observed *)

LiveKeySet == {liveKvs[i].Key : i \in DOMAIN liveKvs}

RestoredKeySet == {snapshotKvs[i].Key : i \in DOMAIN snapshotKvs}

\* the live keys that the restored listing does not hold
MissingKeys == LiveKeySet \ RestoredKeySet

RECURSIVE SumUpTo(_, _)
SumUpTo(kvs, n) == IF n = 0 THEN 0 ELSE SumUpTo(kvs, n - 1) + kvs[n].ValueLen

\* |liveTotalBytes - restoredTotalBytes|
ByteDiff ==
    LET l == SumUpTo(liveKvs, Len(liveKvs))
        r == SumUpTo(snapshotKvs, Len(snapshotKvs))
    IN  IF l >= r THEN l - r ELSE r - l

RestoreSucceeded ==
    \E i \in DOMAIN dummyOps : dummyOps[i].op = "Snapshot.Restore" /\ dummyOps[i].ok

\* the number of retry sleeps taken so far
RetrySleeps == Cardinality({i \in DOMAIN sleeps : sleeps[i] = 5})

AllPutsFailed == \A i \in DOMAIN puts : puts[i].err # Nil

LastPutSucceeded == puts # <<>> /\ puts[Len(puts)].err = Nil

\* sendToS3 has returned to main, or was never called
UploadReturned == pc \in {"checkErr", "exited"}

ExitedNonZero == pc = "exited" /\ exitCode # 0

\* not an absolute URI with non-empty scheme and non-empty host
NotAbsoluteURI(raw) ==
    LET u == ParseRequestURI(raw) IN u.err \/ u.Scheme = "" \/ u.Host = ""

---------------------------------------------------------------------------
(* Properties *)

\* C1: in a run of the verifying revision, whenever a PutObject call has been
\* issued, the restore has succeeded and the comparison has ended Passed:
\* no live key is missing from the restored listing and the totals differ
\* by at most 1000 bytes.
C1_NoUploadBeforeVerified ==
    (revision = "verify" /\ puts # <<>>) =>
        /\ RestoreSucceeded
        /\ verdict = "Passed"
        /\ MissingKeys = {}
        /\ ByteDiff <= 1000

C1_Witness ==
    /\ revision = "verify"
    /\ puts # <<>>
    /\ liveKvs # <<>>
    /\ verdict = "Passed"

\* C2: when at least one live key is absent from the restored listing, no
\* PutObject call is ever issued, and once the comparison has run the
\* verification has Failed and the process has exited non-zero.
C2_MissingKeyFails ==
    (revision = "verify" /\ MissingKeys # {}) =>
        /\ puts = <<>>
        /\ verdict # "Passed"
        /\ pc # "compare" => (verdict = "Failed" /\ ExitedNonZero)

C2_Witness ==
    /\ LiveKeySet = {"a", "b"}
    /\ RestoredKeySet = {"a"}
    /\ verdict = "Failed"
    /\ pc = "exited"
    /\ puts = <<>>

\* C3: once the comparison has run, a difference of more than 1000 bytes
\* between the live and the restored totals means Failed, a non-zero exit
\* and no PutObject call, also with identical key sets; and when no live
\* key is missing, Failed happens only for a difference of more than 1000.
C3_SizeCheck ==
    (revision = "verify" /\ verdict # "None") =>
        /\ ByteDiff > 1000 =>
                (verdict = "Failed" /\ ExitedNonZero /\ puts = <<>>)
        /\ (verdict = "Failed" /\ MissingKeys = {}) => ByteDiff > 1000

C3_Witness ==
    /\ verdict = "Failed"
    /\ LiveKeySet = RestoredKeySet
    /\ LiveKeySet # {}
    /\ ByteDiff = 1001
    /\ ExitedNonZero
    /\ puts = <<>>

\* C4: once the comparison has run, if every live key is in the restored
\* listing and the totals differ by at most 1000 bytes, the verdict is
\* Passed, the run has gone on to the artifact name, and it does not exit
\* before the artifact is named and the upload is dispatched (to end there
\* with a PutObject call, an unsupported target or a failed session).
C4_PassedProceeds ==
    (revision = "verify" /\ verdict # "None" /\ MissingKeys = {} /\ ByteDiff <= 1000) =>
        /\ verdict = "Passed"
        /\ pc \in {"name", "dispatch", "newSession", "putObject", "loop",
                   "checkErr", "exited"}
        /\ pc = "exited" =>
                /\ snapshotKey # ""
                /\ puts # <<>> \/ err \in {<<"unsupported", 0>>, <<"NewSession", 0>>}

C4_Witness ==
    /\ verdict = "Passed"
    /\ LiveKeySet = {"a"}
    /\ RestoredKeySet = {"a", "b"}
    /\ ByteDiff = 1000
    /\ snapshotKey # ""
    /\ puts # <<>>

\* C5: one call of sendToS3 never issues more than 4 PutObject calls, and
\* when it has returned with every attempt failed it has issued exactly 4
\* (3 retries) and returned the error of the last attempt.
C5_RetryBound ==
    /\ Len(puts) <= 4
    /\ (UploadReturned /\ puts # <<>> /\ AllPutsFailed) =>
            /\ Len(puts) = 4
            /\ retries = 3
            /\ err = puts[4].err
            /\ err # Nil

C5_Witness ==
    /\ pc = "checkErr"
    /\ Len(puts) = 4
    /\ AllPutsFailed

\* C6: no PutObject call follows a successful one and every call but the
\* first is preceded by exactly one retry sleep, so a first success at
\* attempt k leaves k calls and k - 1 sleeps; sendToS3 then returns nil.
C6_StopOnSuccess ==
    /\ \A i \in DOMAIN puts : i < Len(puts) => puts[i].err # Nil
    /\ RetrySleeps = (IF puts = <<>> THEN 0 ELSE Len(puts) - 1)
    /\ (UploadReturned /\ LastPutSucceeded) =>
            /\ err = Nil
            /\ retries = Len(puts) - 1

C6_Witness ==
    /\ pc = "checkErr"
    /\ Len(puts) = 3
    /\ LastPutSucceeded
    /\ RetrySleeps = 2
    /\ err = Nil


\* C7: for a target whose type is not "s3", no PutObject call and no retry
\* sleep is ever made, sendToS3 is never entered, the upload step ends with
\* the unsupported-target error, and the process exits non-zero.
C7_UnsupportedTarget ==
    (target # NoTarget /\ target.Type # "s3") =>
        /\ puts = <<>>
        /\ RetrySleeps = 0
        /\ pc \notin {"newSession", "putObject", "loop"}
        /\ pc = "checkErr" => err = <<"unsupported", 0>>
        /\ pc = "exited" =>
                /\ exitCode # 0
                /\ snapshotKey # "" => err = <<"unsupported", 0>>

C7_Witness ==
    /\ target.Type = "gcs"
    /\ snapshotKey # ""
    /\ err = <<"unsupported", 0>>
    /\ ExitedNonZero
    /\ puts = <<>>

\* C8: once the arguments are parsed, a consul address or a target that is
\* missing or is not an absolute URI with scheme and host means that the
\* process has exited non-zero with no call issued to the live store, the
\* dummy agent or the object storage, and no sleep.
C8_InvalidArgsExitFirst ==
    (pc # "start" /\ (NotAbsoluteURI(consulAddr) \/ NotAbsoluteURI(targetURI))) =>
        /\ ExitedNonZero
        /\ liveOps = <<>>
        /\ dummyOps = <<>>
        /\ agent = "none"
        /\ puts = <<>>
        /\ sleeps = <<>>

C8_Witness ==
    /\ pc = "exited"
    /\ consulAddr = "http://consul:8500"
    /\ targetURI = "s3:///consul-snapshots"
    /\ exitCode = 1
    /\ liveOps = <<>>

\* C9: the process exits with 0 or 1; it exits with 0 exactly when the last
\* PutObject call returned success; an exit with an error pending or after a
\* Failed verdict is non-zero.
C9_ExitStatus ==
    pc = "exited" =>
        /\ exitCode \in {0, 1}
        /\ exitCode = 0 <=> LastPutSucceeded
        /\ err # Nil => exitCode # 0
        /\ verdict = "Failed" => exitCode # 0

C9_Witness ==
    /\ pc = "exited"
    /\ exitCode = 0
    /\ revision = "verify"
    /\ LastPutSucceeded

C11_LiveStoreUntouched ==
    /\ [][liveStore' = liveStore]_vars
    /\ [](\A i \in DOMAIN liveOps : liveOps[i].op \in {"Snapshot.Save", "KV.List"})
    /\ [](pc \in {"listSnapshot", "listLive", "compare"} =>
            \E i \in DOMAIN dummyOps : dummyOps[i].op = "Snapshot.Restore")

C11_Witness ==
    /\ liveStore # <<>>
    /\ RestoreSucceeded
    /\ restoredStore # liveStore
    /\ Len(liveOps) = 2
    /\ liveOps[1].op = "Snapshot.Save"
    /\ liveOps[2].op = "KV.List"


\* C12: the bytes submitted to the restore and the body of every PutObject
\* call are the acquired snapshot, whole and unchanged, and every PutObject
\* call addresses the bucket target.Base and the key
\* target.Path + "/" + snapshotKey.
C12_SnapshotImmutable ==
    /\ \A i \in DOMAIN dummyOps :
            dummyOps[i].op = "Snapshot.Restore" => dummyOps[i].body = snapshot
    /\ \A i \in DOMAIN puts :
            /\ puts[i].Body = snapshot
            /\ puts[i].Bucket = target.Base
            /\ puts[i].Key = target.Path \o "/" \o snapshotKey
    /\ \A i, j \in DOMAIN puts : puts[i].Key = puts[j].Key
    /\ (puts # <<>> \/ dummyOps # <<>>) => snapshot \in SnapshotBlobs

C12_Witness ==
    /\ revision = "verify"
    /\ RestoreSucceeded
    /\ Len(puts) = 4
    /\ Len(snapshot) = 2
    /\ puts[4].Key = "/consul-snapshots/1567000001.snap"
    /\ puts[4].Bucket = "my-bucket"


SaveCalls == {i \in DOMAIN liveOps : liveOps[i].op = "Snapshot.Save"}

\* the snapshot-save request failed, or its stream could not be read
AcquireFailed ==
    \/ \E i \in SaveCalls : ~liveOps[i].ok
    \/ (pc = "exited" /\ err = <<"ReadAll", 0>>)

\* C13: Snapshot.Save is called at most once in a run, and when it fails, or
\* the stream cannot be read, the process has exited non-zero with the
\* dummy agent never created, no call issued to it and no PutObject call.
C13_AcquireOnceFatal ==
    /\ Cardinality(SaveCalls) <= 1
    /\ AcquireFailed =>
            /\ ExitedNonZero
            /\ Cardinality(SaveCalls) = 1
            /\ agent = "none"
            /\ dummyOps = <<>>
            /\ puts = <<>>

C13_Witness ==
    /\ revision = "verify"
    /\ Len(liveOps) = 1
    /\ ~liveOps[1].ok
    /\ ExitedNonZero
    /\ agent = "none"


LoggedMissingSet == {missingLogged[i] : i \in DOMAIN missingLogged}

\* the live keys, in listing order, before the first one that the restored
\* listing does not hold are all in it
IsFirstMissing(k) ==
    \E i \in DOMAIN liveKvs :
        /\ liveKvs[i].Key = k
        /\ k \notin RestoredKeySet
        /\ \A j \in 1..(i - 1) : liveKvs[j].Key \in RestoredKeySet

\* C14 as stated: when the coverage check fails, the keys reported as
\* missing are all the live keys that the restored listing does not hold,
\* and the size check is evaluated (its finding is reported) as well.
C14_AllMissingReported ==
    (verdict = "Failed" /\ MissingKeys # {}) =>
        /\ LoggedMissingSet = MissingKeys
        /\ sizeLogged <=> ByteDiff > 1000

\* C14 amended: when the coverage check fails, exactly one key is reported,
\* the first live key in listing order that the restored listing does not
\* hold, and the size check is not evaluated; the size check is evaluated
\* only when no live key is missing.
C14_FirstMissingReported ==
    (revision = "verify" /\ verdict # "None") =>
        /\ MissingKeys # {} =>
                /\ verdict = "Failed"
                /\ Len(missingLogged) = 1
                /\ IsFirstMissing(missingLogged[1])
                /\ ~sizeLogged
        /\ MissingKeys = {} =>
                /\ missingLogged = <<>>
                /\ sizeLogged <=> ByteDiff > 1000

C14_Witness ==
    /\ verdict = "Failed"
    /\ MissingKeys = {"a", "b"}
    /\ missingLogged = <<"a">>
    /\ ByteDiff > 1000
    /\ ~sizeLogged


\* the phase of the verification a position of main belongs to
Phase(p) ==
    CASE p \in {"start", "newClient", "save", "readAll"} -> "Idle"
      [] p \in {"getAgent", "agentStart"} -> "AgentStarting"
      [] p \in {"dummyClient", "wait"} -> "AgentReady"
      [] p = "restore" -> "Restoring"
      [] p \in {"listSnapshot", "listLive", "compare"} -> "Comparing"
      [] OTHER -> "Done"

PhaseRank(ph) ==
    CASE ph = "Idle" -> 0
      [] ph = "AgentStarting" -> 1
      [] ph = "AgentReady" -> 2
      [] ph = "Restoring" -> 3
      [] ph = "Comparing" -> 4
      [] ph = "Done" -> 5

RestoreCalls == {i \in DOMAIN dummyOps : dummyOps[i].op = "Snapshot.Restore"}

\* C15: every step of a run stays in its phase or moves to a later one, so
\* each phase is entered at most once; the dummy agent is started at most
\* once and never restarted, at most one restore is submitted, and a
\* verdict, once produced, never changes.
C15_PhasesForward ==
    /\ [][PhaseRank(Phase(pc')) >= PhaseRank(Phase(pc))]_vars
    /\ [][agent' # agent =>
            <<agent, agent'>> \in {<<"none", "created">>, <<"created", "running">>,
                                   <<"running", "stopped">>}]_vars
    /\ [][verdict # "None" => verdict' = verdict]_vars
    /\ [][verdict' # verdict => Phase(pc) = "Comparing"]_vars
    /\ [](Cardinality(RestoreCalls) <= 1)

C15_Witness ==
    /\ verdict = "Passed"
    /\ agent = "stopped"
    /\ Cardinality(RestoreCalls) = 1
    /\ pc = "exited"


ListCalls(ops) == {i \in DOMAIN ops : ops[i].op = "KV.List"}

\* C16: whenever a call (restore or listing) has been issued to the dummy
\* agent, the agent had been started and the 2 second sleep had been taken
\* before it.
C16_NoRequestBeforeReady ==
    dummyOps # <<>> =>
        /\ agent \in {"running", "stopped"}
        /\ sleeps # <<>>
        /\ sleeps[1] = 2

C16_Witness ==
    /\ Len(dummyOps) = 2
    /\ agent = "running"
    /\ sleeps = <<2>>

\* C17: when the restore into the dummy agent has failed, the process has
\* exited non-zero with no key listing issued to either store, no
\* comparison made and no PutObject call.
C17_RestoreErrorFatal ==
    (\E i \in RestoreCalls : ~dummyOps[i].ok) =>
        /\ ExitedNonZero
        /\ ListCalls(dummyOps) = {}
        /\ ListCalls(liveOps) = {}
        /\ verdict = "None"
        /\ puts = <<>>

C17_Witness ==
    /\ Len(dummyOps) = 1
    /\ ~dummyOps[1].ok
    /\ ExitedNonZero
    /\ liveStore # <<>>

ListFailed ==
    \/ \E i \in ListCalls(dummyOps) : ~dummyOps[i].ok
    \/ \E i \in ListCalls(liveOps) : ~liveOps[i].ok

\* C18: when a key listing of the dummy agent or of the live store has
\* returned an error, the verification does not end Passed, no PutObject
\* call is made and the process exits non-zero.
C18_ListErrorFatal ==
    ListFailed =>
        /\ verdict # "Passed"
        /\ puts = <<>>
        /\ pc = "exited" => exitCode # 0


---------------------------------------------------------------------------
(* Termination *)

\* main and sendToS3 are one sequential thread: when every collaborator call
\* and every sleep returns, the statement the thread is at is executed
FairSpec == Spec /\ WF_vars(Next)

\* C19: when every call and sleep returns, the run ends with an exit status;
\* the retry counter stays within 0..3 and never decreases, and the retry
\* loop runs at most 3 times (one retry sleep per iteration).
C19_Terminates ==
    /\ <>(pc = "exited" /\ exitCode \in {0, 1})
    /\ [](retries \in 0..3)
    /\ [][retries' >= retries]_vars
    /\ [](RetrySleeps = retries)

C19_Witness ==
    /\ pc = "exited"
    /\ retries = 3
    /\ AllPutsFailed
    /\ Len(puts) = 4
    /\ exitCode = 1

====
